---- MODULE Spec2Model ----
(***************************************************************************)
(* Snake: the game state of App (snake, food, directions, status), the     *)
(* keyboard handler onKeyDown, the tick function gameTick and the          *)
(* useInterval driver that invokes it.                                     *)
(*                                                                         *)
(* React state is modelled by the five state variables; the closures that  *)
(* a render hands to the outside world (the gameTick callback stored in    *)
(* savedCallback.current, the keydown listener, the armed setInterval) are *)
(* state of their own, rewritten by Render at the end of every handler.    *)
(***************************************************************************)
EXTENDS Integers, Sequences, FiniteSets

VARIABLES gameState, currentDirection, lastDirection, snake, food,
          savedCallback, onKeyDown, timer, restarted

\* restarted is a history variable: TRUE exactly when the last handler that
\* called a state setter was the restart branch of onKeyDown.
vars == <<gameState, currentDirection, lastDirection, snake, food,
          savedCallback, onKeyDown, timer, restarted>>

(* ---- bounds ---- *)

\* Math.random() is sampled at the points k / RandomSteps, k in 0..RandomSteps-1.
RandomSteps == 2

\* A food capture is taken only while the snake is shorter than MaxSnake.
MaxSnake == 5

(* ---- program constants ---- *)

gridRows == 20
gridColumns == 20

GameStates == {"Playing", "Win", "Loss"}
Directions == {"North", "South", "West", "East"}
KeyCodes == {"Space", "ArrowUp", "ArrowDown", "ArrowLeft", "ArrowRight", "KeyA"}

(* ---- geometry helpers ---- *)

Coord(px, py) == [x |-> px, y |-> py]

RandomSamples == 0 .. (RandomSteps - 1)

\* Math.floor(Math.random() * (max - min + 1) + min), with Math.random() = k / RandomSteps
getRandomNumberFromRange(min, max, k) ==
    ((k * (max - min + 1)) \div RandomSteps) + min

getRandomCoordinate(kx, ky) ==
    Coord(getRandomNumberFromRange(0, gridRows - 1, kx),
          getRandomNumberFromRange(0, gridColumns - 1, ky))

\* the coordinates the model lets getRandomCoordinate() return
RandomDraws ==
    {getRandomCoordinate(kx, ky) : kx \in RandomSamples, ky \in RandomSamples}

\* mutant: the centre taken as floor((n - 1) / 2)
getCenterCoordinateOfLastIndex == Coord((gridRows - 1) \div 2, (gridColumns - 1) \div 2)

getCenterCoordinate == Coord(gridRows \div 2, gridColumns \div 2)

\* mutant: South decrements y like North
getNextCoordinateSouthUp(current, direction) ==
    IF direction = "North" THEN Coord(current.x, current.y - 1)
    ELSE IF direction = "South" THEN Coord(current.x, current.y - 1)
    ELSE IF direction = "West" THEN Coord(current.x - 1, current.y)
    ELSE IF direction = "East" THEN Coord(current.x + 1, current.y)
    ELSE current

getNextCoordinate(current, direction) ==
    IF direction = "North" THEN Coord(current.x, current.y - 1)
    ELSE IF direction = "South" THEN Coord(current.x, current.y + 1)
    ELSE IF direction = "West" THEN Coord(current.x - 1, current.y)
    ELSE IF direction = "East" THEN Coord(current.x + 1, current.y)
    ELSE current

isSameCoordinate(a, b) == a.x = b.x /\ a.y = b.y

\* mutant: the upper edges tested with > instead of >=
isOutOfBoundsOffByOne(c) == c.x < 0 \/ c.x > gridColumns \/ c.y < 0 \/ c.y > gridRows

\* mutant: the tests against 0 are missing
isOutOfBoundsNoLowerEdge(c) == c.x >= gridColumns \/ c.y >= gridRows

isOutOfBounds(c) == c.x < 0 \/ c.x >= gridColumns \/ c.y < 0 \/ c.y >= gridRows

\* mutant: the first step tested with <= instead of <
getGameSpeedInclusive(snakeLength) ==
    LET gridCells == gridRows * gridColumns
    IN  IF snakeLength * 100 <= 5 * gridCells THEN 200
        ELSE IF snakeLength * 100 < 15 * gridCells THEN 180
        ELSE IF snakeLength * 100 < 30 * gridCells THEN 155
        ELSE IF snakeLength * 100 < 50 * gridCells THEN 125
        ELSE IF snakeLength * 100 < 75 * gridCells THEN 90
        ELSE 50

getGameSpeed(snakeLength) ==
    LET gridCells == gridRows * gridColumns
    IN  \* percentageCompleted < p  <=>  snakeLength * 100 < p * gridCells
        IF snakeLength * 100 < 5 * gridCells THEN 200
        ELSE IF snakeLength * 100 < 15 * gridCells THEN 180
        ELSE IF snakeLength * 100 < 30 * gridCells THEN 155
        ELSE IF snakeLength * 100 < 50 * gridCells THEN 125
        ELSE IF snakeLength * 100 < 75 * gridCells THEN 90
        ELSE 50

(* ---- rendering: what a render of App hands out ---- *)

\* mutant: the speed is taken for the initial length, not the current one
intervalDelayOfInitialLength(gs, sn) ==
    IF gs = "Playing" THEN <<getGameSpeed(1)>> ELSE <<>>

\* useInterval's second argument: the delay, or null (the empty sequence)
intervalDelay(gs, sn) ==
    IF gs = "Playing" THEN <<getGameSpeed(Len(sn))>> ELSE <<>>

\* mutant: the null check of the second effect is missing, setInterval(tick, null)
useIntervalArmNoNullCheck(delay) == IF delay = <<>> THEN <<0>> ELSE delay

\* useInterval, second effect: nothing is armed for a null delay, otherwise
\* setInterval(tick, delay); the cleanup clears the previous interval.
useIntervalArm(delay) == delay

\* useInterval, first effect: savedCallback.current = callback, where callback
\* is the gameTick closure of this render.
gameTickClosure(cd, sn, fd) == [currentDirection |-> cd, snake |-> sn, food |-> fd]

\* the keydown listener registered by the effect with deps [gameState, lastDirection]
onKeyDownClosure(gs, ld) == [gameState |-> gs, lastDirection |-> ld]

\* mutant: currentDirection is missing from the deps of gameTick's useCallback,
\* so the callback is rebuilt only when snake or food change
RenderStaleCallback(gs, cd, ld, sn, fd) ==
    /\ gameState' = gs
    /\ currentDirection' = cd
    /\ lastDirection' = ld
    /\ snake' = sn
    /\ food' = fd
    /\ savedCallback' = IF sn = snake /\ fd = food
                        THEN savedCallback
                        ELSE gameTickClosure(cd, sn, fd)
    /\ onKeyDown' = onKeyDownClosure(gs, ld)
    /\ timer' = useIntervalArm(intervalDelay(gs, sn))

Render(gs, cd, ld, sn, fd) ==
    /\ gameState' = gs
    /\ currentDirection' = cd
    /\ lastDirection' = ld
    /\ snake' = sn
    /\ food' = fd
    /\ savedCallback' = gameTickClosure(cd, sn, fd)
    /\ onKeyDown' = onKeyDownClosure(gs, ld)
    /\ timer' = useIntervalArm(intervalDelay(gs, sn))

(* ---- initial state ---- *)

\* the first render of App, the food being one of draws
init(draws) ==
    \E drawn \in draws :
        /\ gameState = "Playing"
        /\ currentDirection = "East"
        /\ lastDirection = "East"
        /\ snake = <<getCenterCoordinate>>
        /\ food = drawn
        /\ savedCallback = gameTickClosure("East", snake, food)
        /\ onKeyDown = onKeyDownClosure("Playing", "East")
        /\ timer = useIntervalArm(intervalDelay("Playing", snake))
        /\ restarted = FALSE

Init == init(RandomDraws)

(* ---- gameTick ---- *)

\* mutant: only the head is compared (snake[0] instead of snake.some)
hitsSnakeHeadOnly(sn, c) == isSameCoordinate(sn[1], c)

\* mutant: the tail is left out of the scan, as if it had already moved away
hitsSnakeExceptTail(sn, c) == \E i \in 1 .. (Len(sn) - 1) : isSameCoordinate(sn[i], c)

\* mutant: the food test comes first, so a cell holding food never counts as a hit
hitsSnakeUnlessFood(sn, c) ==
    ~isSameCoordinate(food, c) /\ \E i \in 1 .. Len(sn) : isSameCoordinate(sn[i], c)

hitsSnake(sn, c) == \E i \in 1 .. Len(sn) : isSameCoordinate(sn[i], c)

\* mutant: the capture drops the last segment like a normal move
growSnakeDropsTail(sn, fd) == <<Coord(fd.x, fd.y)>> \o SubSeq(sn, 1, Len(sn) - 1)

growSnake(sn, fd) == <<Coord(fd.x, fd.y)>> \o sn

\* mutant: slice(0, snake.length) keeps the last segment
moveSnakeKeepsTail(sn, next) == <<next>> \o sn

\* mutant: slice(1) instead of slice(0, snake.length - 1)
moveSnakeDropsHead(sn, next) == <<next>> \o SubSeq(sn, 2, Len(sn))

moveSnake(sn, next) == <<next>> \o SubSeq(sn, 1, Len(sn) - 1)

\* mutant: the collision branches set GameState.Win
GameStateLossAsWin == "Win"

\* GameState.Loss, the status both collision branches set
GameStateLoss == "Loss"

\* The interval fires: tick = () => savedCallback.current().  A capture is
\* taken while the snake is shorter than cap; draws are the values the call
\* of getRandomCoordinate() may return.
gameTick(cap, draws) ==
    /\ timer # <<>>
    /\ restarted' = FALSE
    /\ LET cb == savedCallback
           nextCoordinate == getNextCoordinate(cb.snake[1], cb.currentDirection)
       IN  IF isOutOfBounds(nextCoordinate)
           THEN Render(GameStateLoss, currentDirection, cb.currentDirection, snake, food)
           ELSE IF hitsSnake(cb.snake, nextCoordinate)
           THEN Render(GameStateLoss, currentDirection, cb.currentDirection, snake, food)
           ELSE IF isSameCoordinate(cb.food, nextCoordinate)
           THEN /\ Len(cb.snake) < cap
                /\ \E drawn \in draws :
                      Render(gameState, currentDirection, cb.currentDirection,
                             growSnake(cb.snake, cb.food), drawn)
           ELSE Render(gameState, currentDirection, cb.currentDirection,
                       moveSnake(cb.snake, nextCoordinate), food)

GameTick == gameTick(MaxSnake, RandomDraws)

(* ---- onKeyDown ---- *)

KeyDirection(code) ==
    IF code = "ArrowUp" THEN "North"
    ELSE IF code = "ArrowDown" THEN "South"
    ELSE IF code = "ArrowLeft" THEN "West"
    ELSE "East"

\* the lastDirection a direction key is rejected on
KeyBlockedOn(code) ==
    IF code = "ArrowUp" THEN "South"
    ELSE IF code = "ArrowDown" THEN "North"
    ELSE IF code = "ArrowLeft" THEN "East"
    ELSE "West"

ArrowCodes == {"ArrowUp", "ArrowDown", "ArrowLeft", "ArrowRight"}

\* mutant: the key is judged against currentDirection
directionAcceptedAgainstCurrent(code, last) ==
    code \in ArrowCodes /\ currentDirection # KeyBlockedOn(code)

\* mutant: the reversal test is missing
directionAcceptedAlways(code, last) == code \in ArrowCodes

directionAccepted(code, last) == code \in ArrowCodes /\ last # KeyBlockedOn(code)

\* mutant: Space restarts whatever the status
restartAcceptedAnyStatus(code, gs) == code = "Space"

restartAccepted(code, gs) == code = "Space" /\ gs # "Playing"

\* the keydown listener runs; draws as for gameTick
keyDown(code, draws) ==
    IF restartAccepted(code, onKeyDown.gameState)
    THEN /\ \E drawn \in draws :
               Render("Playing", "East", "East", <<getCenterCoordinate>>, drawn)
         /\ restarted' = TRUE
    ELSE IF directionAccepted(code, onKeyDown.lastDirection)
    THEN /\ Render(gameState, KeyDirection(code), lastDirection, snake, food)
         /\ restarted' = FALSE
    ELSE UNCHANGED vars

KeyDown(code) == keyDown(code, RandomDraws)

Key == \E code \in KeyCodes : KeyDown(code)

Next == GameTick \/ Key

Spec == Init /\ [][Next]_vars

(***************************************************************************)
(* Properties                                                              *)
(***************************************************************************)

Opposite(d) ==
    CASE d = "North" -> "South"
      [] d = "South" -> "North"
      [] d = "West" -> "East"
      [] d = "East" -> "West"

\* one unit step from c along d
Ahead(c, d) ==
    CASE d = "North" -> [x |-> c.x, y |-> c.y - 1]
      [] d = "South" -> [x |-> c.x, y |-> c.y + 1]
      [] d = "West" -> [x |-> c.x - 1, y |-> c.y]
      [] d = "East" -> [x |-> c.x + 1, y |-> c.y]

InsideGrid(c) == c.x \in 0 .. 19 /\ c.y \in 0 .. 19

OnSnake(c) == \E i \in 1 .. Len(snake) : snake[i] = c

\* the cell the head moves to on the next tick
HeadAhead == Ahead(snake[1], currentDirection)

\* C1: the direction the next tick will use (currentDirection, and the copy of
\* it held by the callback the timer invokes) is never the opposite of the
\* direction the preceding tick used (lastDirection).
ReversalGuard ==
    /\ currentDirection # Opposite(lastDirection)
    /\ savedCallback.currentDirection # Opposite(lastDirection)

\* C1 witness: in a running game a direction change was accepted after a tick.
ReversalGuardWitness ==
    /\ gameState = "Playing"
    /\ Len(snake) >= 2
    /\ currentDirection # lastDirection

\* C2: while Playing all snake segments are pairwise distinct and the length
\* lies in 1 .. gridRows*gridColumns.
SnakeDistinct ==
    gameState = "Playing" =>
        /\ \A i, j \in 1 .. Len(snake) : i # j => snake[i] # snake[j]
        /\ Len(snake) >= 1
        /\ Len(snake) <= 400

\* C2 witness: a running game whose snake has grown to the modelled maximum.
SnakeDistinctWitness ==
    /\ gameState = "Playing"
    /\ Len(snake) = MaxSnake
    /\ snake[1] # getCenterCoordinate

\* C3: food never lies on a snake segment.  The snake never moves onto the food
\* without capturing it (which redraws it), so food lies on the snake in some
\* state iff some placement (start, restart, capture) put it there.
FoodPlacedOffSnake == ~OnSnake(food)

\* C4: once status is Loss no interval is armed and no tick is processed, and
\* every step leaves snake, food and status unchanged unless it is the Space
\* key returning the status to Playing.
LossIsTerminal ==
    [][gameState = "Loss" =>
          /\ timer = <<>>
          /\ ~GameTick
          /\ \/ snake' = snake /\ food' = food /\ gameState' = "Loss"
             \/ KeyDown("Space") /\ gameState' = "Playing"]_vars

\* C4 witness: a lost game in which a direction key was handled after the loss.
LossIsTerminalWitness ==
    /\ gameState = "Loss"
    /\ currentDirection # lastDirection

\* C5: Space while not Playing is handled and resets the game to Playing, East,
\* East, [center (10,10)] and a food coordinate inside the grid; Space while
\* Playing changes nothing.
RestartResets ==
    /\ [](gameState # "Playing" => ENABLED (KeyDown("Space") /\ gameState' = "Playing"))
    /\ [][KeyDown("Space") =>
             IF gameState # "Playing"
             THEN /\ gameState' = "Playing"
                  /\ currentDirection' = "East"
                  /\ lastDirection' = "East"
                  /\ snake' = <<[x |-> 10, y |-> 10]>>
                  /\ InsideGrid(food')
             ELSE UNCHANGED <<gameState, currentDirection, lastDirection, snake, food>>]_vars

\* C5 witness: the state a restart has just produced.
RestartResetsWitness ==
    /\ restarted
    /\ gameState = "Playing"
    /\ snake = <<[x |-> 10, y |-> 10]>>
    /\ currentDirection = "East"

\* C6: a direction key is accepted iff its direction is not the opposite of
\* lastDirection; accepted, it sets currentDirection and nothing else; rejected,
\* as any other key, it changes nothing.
DirectionKeys ==
    /\ [](\A code \in ArrowCodes :
             (KeyDirection(code) # Opposite(lastDirection)
                /\ KeyDirection(code) # currentDirection) =>
                 ENABLED (KeyDown(code) /\ currentDirection' = KeyDirection(code)))
    /\ [][\A code \in KeyCodes \ {"Space"} :
             KeyDown(code) =>
                 /\ UNCHANGED <<gameState, lastDirection, snake, food>>
                 /\ IF code \in ArrowCodes /\ KeyDirection(code) # Opposite(lastDirection)
                    THEN currentDirection' = KeyDirection(code)
                    ELSE currentDirection' = currentDirection]_vars

\* C6 witness: after the head has moved East, ArrowUp was accepted.
DirectionKeysWitness ==
    /\ gameState = "Playing"
    /\ lastDirection = "East"
    /\ currentDirection = "North"
    /\ snake[1].x > 10

\* C7: a tick in Playing whose next head coordinate is outside the grid sets
\* status to Loss and leaves snake and food unchanged.
TickOutOfBounds ==
    [][(GameTick /\ gameState = "Playing" /\ ~InsideGrid(HeadAhead)) =>
          /\ gameState' = "Loss"
          /\ snake' = snake
          /\ food' = food]_vars

\* C7 witness: a lost game whose head faces the wall it ran into.
TickOutOfBoundsWitness ==
    /\ gameState = "Loss"
    /\ ~InsideGrid(Ahead(snake[1], lastDirection))

\* C8: a tick in Playing whose in-bounds next head coordinate is on the
\* pre-move snake (the tail cell included) sets status to Loss and leaves snake
\* and food unchanged.
TickSelfCollision ==
    [][(GameTick /\ gameState = "Playing" /\ InsideGrid(HeadAhead) /\ OnSnake(HeadAhead)) =>
          /\ gameState' = "Loss"
          /\ snake' = snake
          /\ food' = food]_vars

\* C8 witness: a lost game whose head ran into the cell of its own tail.
TickSelfCollisionWitness ==
    /\ gameState = "Loss"
    /\ Len(snake) >= 4
    /\ Ahead(snake[1], lastDirection) = snake[Len(snake)]

\* C9: a tick in Playing whose next head coordinate is in bounds, off the snake
\* and on the food prepends that coordinate to the whole previous snake, keeps
\* status Playing and draws a food coordinate.
TickFoodCapture ==
    [][(GameTick /\ gameState = "Playing" /\ InsideGrid(HeadAhead)
          /\ ~OnSnake(HeadAhead) /\ HeadAhead = food) =>
          /\ snake' = <<food>> \o snake
          /\ snake'[1] = HeadAhead
          /\ Len(snake') = Len(snake) + 1
          /\ gameState' = "Playing"
          /\ InsideGrid(food')]_vars

\* C9 witness: a running game after its first capture, the head moved on.
TickFoodCaptureWitness ==
    /\ gameState = "Playing"
    /\ Len(snake) = 2
    /\ snake[1] # getCenterCoordinate

\* C10: a tick in Playing whose next head coordinate is in bounds, off the snake
\* and off the food yields [next] followed by all segments but the last; length,
\* food, status and currentDirection are unchanged.
TickNormalMove ==
    [][(GameTick /\ gameState = "Playing" /\ InsideGrid(HeadAhead)
          /\ ~OnSnake(HeadAhead) /\ HeadAhead # food) =>
          /\ snake' = <<HeadAhead>> \o SubSeq(snake, 1, Len(snake) - 1)
          /\ Len(snake') = Len(snake)
          /\ food' = food
          /\ gameState' = gameState
          /\ currentDirection' = currentDirection]_vars

\* C10 witness: the first tick of a game moved the one-segment snake East.
TickNormalMoveWitness ==
    /\ gameState = "Playing"
    /\ snake = <<[x |-> 11, y |-> 10]>>
    /\ lastDirection = "East"

\* C11: the status is Playing or Loss in every reachable state; Win is never set.
WinNeverReached == gameState \in {"Playing", "Loss"}

\* C11 witness: a game ended with the snake at the modelled maximum length.
WinNeverReachedWitness ==
    /\ gameState = "Loss"
    /\ Len(snake) = MaxSnake

\* C12: a tick commits the currentDirection of the moment it fires, and when it
\* moves the head, moves it one step along that direction from the head of
\* that moment; a capture takes the food of that moment.
TickUsesLatestState ==
    [][GameTick =>
          /\ lastDirection' = currentDirection
          /\ snake' # snake =>
                /\ snake'[1] = HeadAhead
                /\ SubSeq(snake', 2, Len(snake)) = SubSeq(snake, 1, Len(snake) - 1)
          /\ Len(snake') > Len(snake) => snake'[1] = food]_vars

\* C12 witness: ArrowUp arrived between the first and the second tick, and the
\* second tick moved the head North.
TickUsesLatestStateWitness ==
    /\ gameState = "Playing"
    /\ snake = <<[x |-> 11, y |-> 9]>>
    /\ lastDirection = "North"

\* C15: when the food lies on a snake cell and the next head coordinate is that
\* cell, the tick sets Loss, the snake does not grow and the food is not redrawn.
CollisionBeforeCapture ==
    [][(GameTick /\ gameState = "Playing" /\ OnSnake(food) /\ HeadAhead = food) =>
          /\ gameState' = "Loss"
          /\ snake' = snake
          /\ food' = food]_vars

\* C15 witness: a lost game whose head ran into a snake cell that holds the food.
CollisionBeforeCaptureWitness ==
    /\ gameState = "Loss"
    /\ OnSnake(food)
    /\ Ahead(snake[1], lastDirection) = food

\* C16: every snake segment and the food lie inside the grid, whatever the status.
AllInsideGrid ==
    /\ \A i \in 1 .. Len(snake) : InsideGrid(snake[i])
    /\ InsideGrid(food)

\* C16 witness: a game lost at the West wall; the head stays on column 0.
AllInsideGridWitness ==
    /\ gameState = "Loss"
    /\ lastDirection = "West"
    /\ snake[1].x = 0

Abs(n) == IF n < 0 THEN -n ELSE n

\* C17: consecutive snake segments are at Manhattan distance 1.
SnakeConnected ==
    \A i \in 1 .. (Len(snake) - 1) :
        Abs(snake[i].x - snake[i + 1].x) + Abs(snake[i].y - snake[i + 1].y) = 1

\* C17 witness: a snake of at least three segments with a bend.
SnakeConnectedWitness ==
    /\ Len(snake) >= 3
    /\ snake[1].x # snake[3].x
    /\ snake[1].y # snake[3].y

(***************************************************************************)
(* SpecFill: one particular game.  The player steers the one-segment snake *)
(* North to row 0 and West to the corner (0,0), then along the serpentine  *)
(* that runs down the even columns and up the odd ones, always in time for *)
(* the tick, and every getRandomCoordinate() call returns the cell ahead   *)
(* of the head on that path.  The snake grows from 1 to 400 segments.      *)
(***************************************************************************)

SerpentineNext(c) ==
    IF c.x % 2 = 0
    THEN IF c.y < gridRows - 1 THEN Coord(c.x, c.y + 1) ELSE Coord(c.x + 1, c.y)
    ELSE IF c.y > 0 THEN Coord(c.x, c.y - 1) ELSE Coord(c.x + 1, c.y)

\* the direction the player wants for the next tick
FillDirection ==
    LET head == snake[1]
    IN  IF Len(snake) = 1
        THEN IF head.y > 0 THEN "North" ELSE IF head.x > 0 THEN "West" ELSE "South"
        ELSE CHOOSE d \in Directions : getNextCoordinate(head, d) = SerpentineNext(head)

\* the food drawn at start and restart: the first cell of the serpentine after the corner
FillFirstFood == Coord(0, 1)

\* the food drawn after a capture: the cell after the captured one, and any
\* cell once the path is complete
FillNextFood ==
    LET ahead == SerpentineNext(food)
    IN  IF ahead.x >= gridColumns THEN Coord(0, 0) ELSE ahead

FillInit == init({FillFirstFood})

FillTick ==
    /\ currentDirection = FillDirection
    /\ gameTick(gridRows * gridColumns, {FillNextFood})

FillKey ==
    \E code \in ArrowCodes \cup {"Space"} :
        /\ code \in ArrowCodes => gameState = "Playing" /\ KeyDirection(code) = FillDirection
        /\ keyDown(code, {FillFirstFood})

FillNext == FillTick \/ FillKey

SpecFill == FillInit /\ [][FillNext]_vars

(***************************************************************************)
(* SpecEast: the games in which no direction change is accepted.  Food is  *)
(* drawn from every cell of the grid.                                      *)
(***************************************************************************)

\* every value getRandomCoordinate() can return
GridCells == {Coord(px, py) : px \in 0 .. (gridRows - 1), py \in 0 .. (gridColumns - 1)}

EastInit == init(GridCells)

EastTick == gameTick(gridRows * gridColumns, GridCells)

\* Space, the rejected ArrowLeft, ArrowRight (East again) and a key without a binding
EastKey == \E code \in {"Space", "ArrowLeft", "ArrowRight", "KeyA"} : keyDown(code, GridCells)

EastNext == EastTick \/ EastKey

SpecEast == EastInit /\ [][EastNext]_vars

(***************************************************************************)
(* SpecGeom: getNextCoordinate applied to a coordinate and a direction,    *)
(* then to the result and the opposite direction; snake records the three  *)
(* coordinates, newest first.                                              *)
(***************************************************************************)

\* coordinates are drawn from the grid widened by GeomMargin cells on every side
GeomMargin == 1

GeomCoordinates ==
    {Coord(px, py) : px \in (0 - GeomMargin) .. (gridRows - 1 + GeomMargin),
                     py \in (0 - GeomMargin) .. (gridColumns - 1 + GeomMargin)}

GeomInit ==
    \E c \in GeomCoordinates, d \in Directions :
        /\ gameState = "Playing"
        /\ currentDirection = d
        /\ lastDirection = d
        /\ snake = <<c>>
        /\ food = c
        /\ savedCallback = gameTickClosure(d, snake, food)
        /\ onKeyDown = onKeyDownClosure("Playing", d)
        /\ timer = <<>>
        /\ restarted = FALSE

GeomForward ==
    /\ Len(snake) = 1
    /\ snake' = <<getNextCoordinate(snake[1], currentDirection)>> \o snake
    /\ UNCHANGED <<gameState, currentDirection, lastDirection, food,
                   savedCallback, onKeyDown, timer, restarted>>

GeomBack ==
    /\ Len(snake) = 2
    /\ snake' = <<getNextCoordinate(snake[1], Opposite(currentDirection))>> \o snake
    /\ UNCHANGED <<gameState, currentDirection, lastDirection, food,
                   savedCallback, onKeyDown, timer, restarted>>

GeomNext == GeomForward \/ GeomBack

SpecGeom == GeomInit /\ [][GeomNext]_vars

\* C13: while Playing the armed interval is gameSpeed of the current snake
\* length, so growth past a step re-arms it; otherwise no interval is armed
\* and no tick can fire.
TimerTracksSpeed ==
    IF gameState = "Playing"
    THEN timer = <<getGameSpeed(Len(snake))>>
    ELSE timer = <<>> /\ ~ENABLED FillTick /\ ~ENABLED GameTick

\* C13 witness: the capture that made the snake 20 long re-armed the interval at 180.
TimerTracksSpeedWitness ==
    /\ gameState = "Playing"
    /\ Len(snake) = 20
    /\ timer = <<180>>

\* the step table of the 400-cell grid
SpeedTable(n) ==
    IF n < 20 THEN 200
    ELSE IF n < 60 THEN 180
    ELSE IF n < 120 THEN 155
    ELSE IF n < 200 THEN 125
    ELSE IF n < 300 THEN 90
    ELSE 50

\* C14: gameSpeed of the snake length follows the step table, is the interval
\* armed while Playing, and is no larger than gameSpeed of any shorter length.
SpeedFollowsTable ==
    LET n == Len(snake)
    IN  /\ n \in 1 .. 400
        /\ getGameSpeed(n) = SpeedTable(n)
        /\ gameState = "Playing" => timer = <<SpeedTable(n)>>
        /\ \A m \in 1 .. n : getGameSpeed(m) >= getGameSpeed(n)
        /\ n = 1 => getGameSpeed(n) = 200
        /\ n = 300 => getGameSpeed(n) = 50

\* C14 witness: the snake is 300 long and the interval is 50.
SpeedFollowsTableWitness ==
    /\ Len(snake) = 300
    /\ timer = <<50>>

\* C18: a game starts with the head on (10,10); with no direction change the
\* head stays on row 10 at x in 10..19 while Playing, every tick from x < 19
\* advances it by one and keeps Playing, and the tick from x = 19 sets Loss.
EastWallRun ==
    /\ snake = <<[x |-> 10, y |-> 10]>>
    /\ [](gameState = "Playing" => snake[1].y = 10 /\ snake[1].x \in 10 .. 19)
    /\ [][/\ EastTick =>
                IF snake[1].x < 19
                THEN gameState' = "Playing" /\ snake'[1] = [x |-> snake[1].x + 1, y |-> 10]
                ELSE gameState' = "Loss" /\ snake' = snake
          /\ (gameState = "Loss" /\ gameState' = "Playing") =>
                snake' = <<[x |-> 10, y |-> 10]>>]_vars

\* C18 witness: the game was lost at the East wall after a capture on the way.
EastWallRunWitness ==
    /\ gameState = "Loss"
    /\ snake[1] = [x |-> 19, y |-> 10]
    /\ Len(snake) >= 2

\* C19: the coordinate reached by a step along d and then a step along the
\* opposite of d is the coordinate started from.
NextCoordinateInverse == Len(snake) = 3 => snake[1] = snake[3]

\* C19 witness: a step South and back North, started on the last row.
NextCoordinateInverseWitness ==
    /\ Len(snake) = 3
    /\ currentDirection = "South"
    /\ snake[3].y = 19
    /\ snake[2].y = 20

====
